---- MODULE Spec2Model ----
(***************************************************************************)
(* pytai: Application (src/pytai/application.py).                          *)
(*                                                                         *)
(* The application populates a raw-byte view and a structure tree for a    *)
(* file, and reacts to three view events: refresh, structure selected and  *)
(* goto.  The structure tree is built breadth first from the value graph   *)
(* the parser returns; offsets that look relative are disabled.            *)
(*                                                                         *)
(* The parser (model.get_parser, parse, get_item_description,              *)
(* get_children) is an external collaborator: what it reports for a value  *)
(* is chosen when the code asks for it, from bounded sets.                 *)
(***************************************************************************)
EXTENDS Integers, Sequences, FiniteSets, TLC

\* ------------------------------------------------------------------ bounds
\* Values of one parsed file besides the root value.
MaxNodes == 3
\* The same, of a file that stays as it is between populations.
MaxSameFileNodes == 2
\* --------------------------------------------------------------- constants
\* Python's None, as an offset: an integer no offset takes, so that the
\* code's comparisons with 0 are comparisons of integers.
None == -1

\* The parent passed for the root (application.py:82).
NoParent == ""

Digits == <<"0", "1", "2", "3", "4", "5", "6", "7", "8", "9">>

\* Field names the parser reports, by position in the enumeration.
FieldNames == <<"a", "b", "c", "d", "e", "f", "g", "h">>

\* f"[{i}]" (application.py:95)
ElementName(i) == "[" \o Digits[i + 1] \o "]"

VARIABLES
    pc,                 \* position of the control thread
    current_file_path,  \* self.current_file_path
    format,             \* self.format
    queue,              \* the local queue of _populate_structure_tree
    tree,               \* the view's structure tree: the items added, in order
    status,             \* the view's status text
    errors,             \* display_error calls since the population started
    buffer_open,        \* the memory map of populate_view is open
    hex_populated,      \* the raw-byte view shows the file
    hex_cmds,           \* commands the last event sent to the raw-byte view
    emitted,            \* history: the frame of every item of tree
    discarded,          \* history: the refresh that is running, or that
                        \* failed, removed items when it reset the view
    recovering,         \* history: the refresh that is running was
                        \* started after a build that failed
    enumerated,         \* history: the values the parser has handed to the
                        \* running build, the root value included
    replay,             \* the file stays as it is between populations
    file,               \* history: what the parser reported of each value,
                        \* kept when the file stays as it is
    previous            \* history: the tree of the build before, when it
                        \* was completed and the file stays as it is

vars == <<pc, current_file_path, format, queue, tree, status, errors,
          buffer_open, hex_populated, hex_cmds, emitted, discarded,
          recovering, enumerated, replay, file, previous>>

\* ------------------------------------------------------------ the parser
\* The start offsets the parser reports.  The code only compares a start
\* offset with 0: one offset that is 0 and one that is not.
Offsets == {0, 1}

\* The (start, end) pairs the parser reports in _debug: none, or one byte.
Ranges == {<<None, None>>} \cup {<<s, s + 1>> : s \in Offsets}

\* A value of the parsed file, as far as the build can tell values apart:
\* its place in the value graph (the positions from the root down to it) and
\* the offsets the parser holds for it.
Value(path, r) == [path |-> path, start_offset |-> r[1], end_offset |-> r[2]]

\* parser.parse(path): the root value.
ParsedFile == Value(<<>>, <<None, None>>)

\* One entry of parser.get_children(value).
ChildAttr(value, i, r, metavar, array) ==
    [name |-> FieldNames[i], value |-> Value(Append(value.path, i), r),
     start_offset |-> r[1], end_offset |-> r[2],
     is_metavar |-> metavar, is_array |-> array]

\* One element of an array value.
ArrAttr(value, i, r) ==
    [value |-> Value(Append(value.path, i), r),
     start_offset |-> r[1], end_offset |-> r[2]]

\* What the parser can report of one field: a field with a range or none,
\* array or not, or a metavar, which owns no bytes.
FieldKinds ==
    {<<r, FALSE, a>> : r \in Ranges, a \in BOOLEAN}
    \cup {<<<<None, None>>, TRUE, FALSE>>}

\* parser.get_children(value): the enumerations of at most n entries.
ChildLists(value, n) ==
    UNION {
        {[i \in 1 .. k |-> ChildAttr(value, i, f[i][1], f[i][2], f[i][3])] :
            f \in [1 .. k -> FieldKinds]}
        : k \in 0 .. n}

\* The array values with at most n elements that value can be.
ArrayValues(value, n) ==
    UNION {{[i \in 1 .. k |-> ArrAttr(value, i, f[i])] :
               f \in [1 .. k -> Ranges]}
           : k \in 0 .. n}

\* ------------------------------------------------------------- the view
\* The handle add_tree_item returns: unique within one tree instance.
Handle(i) == "I" \o Digits[i + 1]

\* view.add_tree_item(parent, name, description, start, end, is_metavar)
TreeItem(handle, node_attr) ==
    [handle |-> handle, parent |-> node_attr.parent, name |-> node_attr.name,
     start_offset |-> node_attr.start_offset,
     end_offset |-> node_attr.end_offset,
     is_metavar |-> node_attr.is_metavar]

\* view.reset(): the structure tree after it, no item left.
ResetTree == <<>>

\* view.mark_range(start_offset, end_offset), as a command to the raw-byte view
MarkRange(start_offset, end_offset) ==
    [cmd |-> "mark_range", start_offset |-> start_offset,
     end_offset |-> end_offset]

\* view.make_visible(offset, highlight), as a command to the raw-byte view
MakeVisible(offset, highlight) ==
    [cmd |-> "make_visible", offset |-> offset, highlight |-> highlight]

\* ------------------------------------------- _populate_structure_tree
NodeAttributes(parent, name, value, start_offset, end_offset, is_metavar, is_array, invalidate_offsets) ==
    [parent |-> parent, name |-> name, value |-> value,
     start_offset |-> start_offset, end_offset |-> end_offset,
     is_metavar |-> is_metavar, is_array |-> is_array,
     invalidate_offsets |-> invalidate_offsets]

\* A root frame without a start offset.
RootAttributesNoStart ==
    NodeAttributes(NoParent, "root", ParsedFile, None, None, FALSE, FALSE, FALSE)

\* application.py:82-83
RootAttributes ==
    NodeAttributes(NoParent, "root", ParsedFile, 0, None, FALSE, FALSE, FALSE)

\* Mutant: the element's offsets pass whatever the flag says.
ElementFrameKeepsOffsets(handle, i, arr_attr, invalidate_offsets) ==
    [parent |-> handle, name |-> ElementName(i), value |-> arr_attr.value,
     start_offset |-> arr_attr.start_offset,
     end_offset |-> arr_attr.end_offset,
     is_metavar |-> FALSE, is_array |-> FALSE,
     invalidate_offsets |-> invalidate_offsets]

\* An element frame named with the index that follows its own.
ElementFrameOneBased(handle, i, arr_attr, invalidate_offsets) ==
    NodeAttributes(handle, ElementName(i + 1), arr_attr.value,
        IF ~invalidate_offsets THEN arr_attr.start_offset ELSE None,
        IF ~invalidate_offsets THEN arr_attr.end_offset ELSE None,
        FALSE, FALSE, invalidate_offsets)

\* application.py:95-99: the frame of element i of an array.
ElementFrame(handle, i, arr_attr, invalidate_offsets) ==
    NodeAttributes(handle, ElementName(i), arr_attr.value,
        IF ~invalidate_offsets THEN arr_attr.start_offset ELSE None,
        IF ~invalidate_offsets THEN arr_attr.end_offset ELSE None,
        FALSE, FALSE, invalidate_offsets)

\* Mutant: the elements are checked like named children.
ElementFramesChecked(handle, node_attr, elements, invalidate_offsets) ==
    [i \in 1 .. Len(elements) |->
        LET inv == invalidate_offsets
                   \/ (node_attr.start_offset # 0
                       /\ elements[i].start_offset = 0)
        IN [parent |-> handle, name |-> ElementName(i - 1),
            value |-> elements[i].value,
            start_offset |-> IF ~inv THEN elements[i].start_offset ELSE None,
            end_offset |-> IF ~inv THEN elements[i].end_offset ELSE None,
            is_metavar |-> FALSE, is_array |-> FALSE,
            invalidate_offsets |-> inv]]

\* application.py:94-99: the frames of an array's elements.
ElementFrames(handle, node_attr, elements, invalidate_offsets) ==
    [i \in 1 .. Len(elements) |->
        ElementFrame(handle, i - 1, elements[i], invalidate_offsets)]

\* Mutant: the check never fires.
RelativeNever(node_attr, child_attr, invalidate_offsets) ==
    invalidate_offsets

\* application.py:102-103: the flag after the check for one child.
Relative(node_attr, child_attr, invalidate_offsets) ==
    IF node_attr.start_offset # 0 /\ child_attr.start_offset = 0
    THEN TRUE
    ELSE invalidate_offsets

\* Mutant: the child is attached to the sentinel instead of the handle.
ChildFrameNoHandle(handle, child_attr, invalidate_offsets) ==
    [parent |-> NoParent, name |-> child_attr.name,
     value |-> child_attr.value,
     start_offset |->
        IF ~invalidate_offsets THEN child_attr.start_offset ELSE None,
     end_offset |->
        IF ~invalidate_offsets THEN child_attr.end_offset ELSE None,
     is_metavar |-> child_attr.is_metavar, is_array |-> child_attr.is_array,
     invalidate_offsets |-> invalidate_offsets]

\* A frame that drops the start offset alone.
ChildFrameKeepsEnd(handle, child_attr, invalidate_offsets) ==
    NodeAttributes(handle, child_attr.name, child_attr.value,
        IF ~invalidate_offsets THEN child_attr.start_offset ELSE None,
        child_attr.end_offset,
        child_attr.is_metavar, child_attr.is_array, invalidate_offsets)

\* application.py:104-107: the frame of one named child.
ChildFrame(handle, child_attr, invalidate_offsets) ==
    NodeAttributes(handle, child_attr.name, child_attr.value,
        IF ~invalidate_offsets THEN child_attr.start_offset ELSE None,
        IF ~invalidate_offsets THEN child_attr.end_offset ELSE None,
        child_attr.is_metavar, child_attr.is_array, invalidate_offsets)

\* Mutant: every child is checked alone, the flag is not carried from one
\* child to the next.
ChildFramesEachAlone(handle, node_attr, children, invalidate_offsets) ==
    [i \in 1 .. Len(children) |->
        ChildFrame(handle, children[i],
                   Relative(node_attr, children[i], invalidate_offsets))]

\* application.py:101-107: the frames of the named children; the local
\* invalidate_offsets is carried from one child to the next.
RECURSIVE ChildFrames(_, _, _, _)
ChildFrames(handle, node_attr, children, invalidate_offsets) ==
    IF children = <<>> THEN <<>>
    ELSE LET child_attr == Head(children)
             inv == Relative(node_attr, child_attr, invalidate_offsets)
         IN <<ChildFrame(handle, child_attr, inv)>>
            \o ChildFrames(handle, node_attr, Tail(children), inv)

\* Values of the file not yet enumerated, so that a file has at most
\* MaxNodes values besides the root (MaxSameFileNodes when the file stays
\* as it is).
Room == (IF replay THEN MaxSameFileNodes ELSE MaxNodes) + 1 - (Len(tree) + Len(queue))

Init ==
    /\ pc = "populate_view"
    /\ current_file_path = "unset"
    /\ format = "unset"
    /\ queue = <<>>
    /\ tree = <<>>
    /\ status = ""
    /\ errors = 0
    /\ buffer_open = FALSE
    /\ hex_populated = FALSE
    /\ hex_cmds = <<>>
    /\ emitted = <<>>
    /\ discarded = FALSE
    /\ recovering = FALSE
    /\ enumerated = 0
    /\ replay = FALSE
    /\ file = {}
    /\ previous = <<>>

\* application.py:46: with utils.memory_map(path_file) as f
MemoryMap ==
    /\ pc = "populate_view"
    /\ pc' = "hex"
    /\ buffer_open' = TRUE
    /\ UNCHANGED <<current_file_path, format, queue, tree, status,
                   errors, hex_populated, hex_cmds, emitted, discarded>>
    /\ UNCHANGED <<recovering, enumerated, replay, file, previous>>

\* Mutant: the with block does not end before the structure tree is built.
PopulateHexViewKeepsBuffer ==
    /\ pc = "hex"
    /\ pc' = "parse"
    /\ hex_populated' = TRUE
    /\ UNCHANGED <<current_file_path, format, queue, tree, status, errors,
                   buffer_open, hex_cmds, emitted, discarded>>
    /\ UNCHANGED <<recovering, enumerated, replay, file, previous>>

\* application.py:47: populate_hex_view(f), and the end of the with block.
PopulateHexView ==
    /\ pc = "hex"
    /\ pc' = "parse"
    /\ hex_populated' = TRUE
    /\ buffer_open' = FALSE
    /\ UNCHANGED <<current_file_path, format, queue, tree, status,
                   errors, hex_cmds, emitted, discarded>>
    /\ UNCHANGED <<recovering, enumerated, replay, file, previous>>

\* Mutant: the status is set to "Loaded" after the error was displayed.
ExceptThenLoaded ==
    /\ errors' = errors + 1
    /\ pc' = "idle"
    /\ queue' = <<>>
    /\ status' = "Loaded"
    /\ UNCHANGED <<buffer_open, hex_populated, hex_cmds, discarded>>
    /\ enumerated' = 0
    /\ recovering' = FALSE
    /\ UNCHANGED <<replay, file, previous>>

\* application.py:110-111: except PyTaiException
ExceptPyTaiException ==
    /\ errors' = errors + 1
    /\ pc' = "idle"
    /\ queue' = <<>>
    /\ UNCHANGED <<status, buffer_open, hex_populated, hex_cmds,
                   discarded>>
    /\ enumerated' = 0
    /\ recovering' = FALSE
    /\ UNCHANGED <<replay, file, previous>>

\* application.py:60-65, 80-83: the parser parses the file.
Parse ==
    /\ pc = "parse"
    /\ current_file_path' = "file"
    /\ format' = "kaitai"
    /\ queue' = <<RootAttributes>>
    /\ pc' = "loop"
    /\ UNCHANGED <<tree, status, errors, buffer_open, hex_populated,
                   hex_cmds, emitted, discarded>>
    /\ enumerated' = 1
    /\ UNCHANGED <<recovering, replay, file, previous>>

\* application.py:64-65: get_parser or parse raises PyTaiException.
ParseRaises ==
    /\ pc = "parse"
    /\ current_file_path' = "file"
    /\ format' = "kaitai"
    /\ ExceptPyTaiException
    /\ UNCHANGED <<tree, emitted>>

\* What the parser reports of the value of a frame: the elements of an array
\* value, or the entries of get_children; what it reported before, when the
\* file stays as it is.
Reports(node_attr) ==
    LET known == {e \in file : e[1] = node_attr.value.path}
    IN IF replay /\ known # {}
       THEN {e[2] : e \in known}
       ELSE IF node_attr.is_array
            THEN ArrayValues(node_attr.value, Room)
            ELSE ChildLists(node_attr.value, Room)

\* A queue that loses the last frame appended to it.
EnqueuedLosingLast(rest, frames) ==
    rest \o SubSeq(frames, 1, Len(frames) - 1)

\* A stack in place of the queue: the frames go in front of the waiting ones.
EnqueuedInFront(rest, frames) == frames \o rest

\* application.py:95, 104: queue.append, for every frame in turn.
Enqueued(rest, frames) == rest \o frames

\* application.py:85-107: one iteration of the loop.
LoopBody ==
    /\ pc = "loop"
    /\ queue # <<>>
    /\ LET node_attr == Head(queue)
           handle == Handle(Len(tree) + 1)
       IN /\ tree' = Append(tree, TreeItem(handle, node_attr))
          /\ emitted' = Append(emitted, node_attr)
          /\ \E reported \in Reports(node_attr) :
                /\ queue' =
                      IF node_attr.is_array
                      THEN Enqueued(Tail(queue),
                               ElementFrames(handle, node_attr, reported,
                                             node_attr.invalidate_offsets))
                      ELSE Enqueued(Tail(queue),
                               ChildFrames(handle, node_attr, reported,
                                           node_attr.invalidate_offsets))
                /\ enumerated' = enumerated + Len(reported)
                /\ file' = IF replay
                           THEN file \cup {<<node_attr.value.path, reported>>}
                           ELSE file
    /\ UNCHANGED <<pc, current_file_path, format, status, errors,
                   buffer_open, hex_populated, hex_cmds, discarded,
                   recovering, replay, previous>>

\* application.py:88: get_item_description raises PyTaiException, before
\* add_tree_item is called.
DescriptionRaises ==
    /\ pc = "loop"
    /\ queue # <<>>
    /\ ExceptPyTaiException
    /\ UNCHANGED <<current_file_path, format, tree, emitted>>

\* application.py:94, 101: enumerating the children raises PyTaiException,
\* after add_tree_item returned.
ChildrenRaise ==
    /\ pc = "loop"
    /\ queue # <<>>
    /\ LET node_attr == Head(queue)
           handle == Handle(Len(tree) + 1)
       IN /\ tree' = Append(tree, TreeItem(handle, node_attr))
          /\ emitted' = Append(emitted, node_attr)
    /\ ExceptPyTaiException
    /\ UNCHANGED <<current_file_path, format>>

\* application.py:85, 109: the queue is empty.
LoopExit ==
    /\ pc = "loop"
    /\ queue = <<>>
    /\ status' = "Loaded"
    /\ pc' = "idle"
    /\ discarded' = FALSE
    /\ UNCHANGED <<current_file_path, format, queue, tree, errors,
                   buffer_open, hex_populated, hex_cmds, emitted>>
    /\ recovering' = FALSE
    /\ UNCHANGED <<enumerated, replay, file, previous>>

\* Any other exception is displayed as a decode error is, and raised again.
UnexpectedFailureDisplayed ==
    /\ pc \in {"parse", "loop"}
    /\ pc' = "raised"
    /\ queue' = <<>>
    /\ errors' = errors + 1
    /\ UNCHANGED <<current_file_path, format, tree, status,
                   buffer_open, hex_populated, hex_cmds, emitted, discarded>>
    /\ enumerated' = 0
    /\ recovering' = FALSE
    /\ UNCHANGED <<replay, file, previous>>

\* application.py:112-113: any other exception is raised again.
UnexpectedFailure ==
    /\ pc \in {"parse", "loop"}
    /\ pc' = "raised"
    /\ queue' = <<>>
    /\ UNCHANGED <<current_file_path, format, tree, status, errors,
                   buffer_open, hex_populated, hex_cmds, emitted, discarded>>
    /\ enumerated' = 0
    /\ recovering' = FALSE
    /\ UNCHANGED <<replay, file, previous>>

\* Mutant: the view is not reset.
CbRefreshNoReset ==
    /\ pc = "idle"
    /\ discarded' = FALSE
    /\ emitted' = <<>>
    /\ status' = "Refreshing..."
    /\ errors' = 0
    /\ hex_cmds' = <<>>
    /\ pc' = "populate_view"
    /\ UNCHANGED <<current_file_path, format, queue, tree, buffer_open,
                   hex_populated>>
    /\ recovering' = (errors > 0)
    /\ enumerated' = 0
    /\ previous' = IF replay /\ errors = 0 THEN tree ELSE <<>>
    /\ UNCHANGED <<replay, file>>

\* application.py:116-120
CbRefresh ==
    /\ pc = "idle"
    /\ discarded' = (tree # <<>>)
    /\ tree' = ResetTree
    /\ emitted' = <<>>
    /\ status' = "Refreshing..."
    /\ errors' = 0
    /\ hex_cmds' = <<>>
    /\ pc' = "populate_view"
    /\ UNCHANGED <<current_file_path, format, queue, buffer_open,
                   hex_populated>>
    /\ recovering' = (errors > 0)
    /\ enumerated' = 0
    /\ previous' = IF replay /\ errors = 0 THEN tree ELSE <<>>
    /\ UNCHANGED <<replay, file>>

\* application.py:122-125
CbStructureSelected ==
    /\ pc = "idle"
    /\ \E i \in 1 .. Len(tree) :
          hex_cmds' = <<MarkRange(tree[i].start_offset, tree[i].end_offset),
                        MakeVisible(tree[i].start_offset, FALSE)>>
    /\ UNCHANGED <<pc, current_file_path, format, queue, tree, status,
                   errors, buffer_open, hex_populated, emitted, discarded>>
    /\ UNCHANGED <<recovering, enumerated, replay, file, previous>>

\* A cb_goto that resets the view as cb_refresh does.
CbGotoResets ==
    /\ pc = "idle"
    /\ \E offset \in Offsets :
          hex_cmds' = <<MakeVisible(offset, TRUE)>>
    /\ status' = "Jumping to offset"
    /\ tree' = ResetTree
    /\ UNCHANGED <<pc, current_file_path, format, queue, errors,
                   buffer_open, hex_populated, emitted, discarded>>
    /\ UNCHANGED <<recovering, enumerated, replay, file, previous>>

\* application.py:127-130
CbGoto ==
    /\ pc = "idle"
    /\ \E offset \in Offsets :
          hex_cmds' = <<MakeVisible(offset, TRUE)>>
    /\ status' = "Jumping to offset"
    /\ UNCHANGED <<pc, current_file_path, format, queue, tree, errors,
                   buffer_open, hex_populated, emitted, discarded>>
    /\ UNCHANGED <<recovering, enumerated, replay, file, previous>>

Next ==
    \/ MemoryMap
    \/ PopulateHexView
    \/ Parse
    \/ ParseRaises
    \/ LoopBody
    \/ DescriptionRaises
    \/ ChildrenRaise
    \/ LoopExit
    \/ UnexpectedFailure
    \/ CbRefresh
    \/ CbStructureSelected
    \/ CbGoto

Spec == Init /\ [][Next]_vars

\* The steps of a population: the control thread runs them to the end before
\* the view hands over the next event.
Populate ==
    \/ MemoryMap
    \/ PopulateHexView
    \/ Parse
    \/ ParseRaises
    \/ LoopBody
    \/ DescriptionRaises
    \/ ChildrenRaise
    \/ LoopExit
    \/ UnexpectedFailure

\* The application on a file that stays as it is: the parser reports of a
\* value what it reported of it before.
InitSameFile ==
    /\ pc = "populate_view"
    /\ current_file_path = "unset"
    /\ format = "unset"
    /\ queue = <<>>
    /\ tree = <<>>
    /\ status = ""
    /\ errors = 0
    /\ buffer_open = FALSE
    /\ hex_populated = FALSE
    /\ hex_cmds = <<>>
    /\ emitted = <<>>
    /\ discarded = FALSE
    /\ recovering = FALSE
    /\ enumerated = 0
    /\ replay = TRUE
    /\ file = {}
    /\ previous = <<>>

SpecSameFile == InitSameFile /\ [][Next]_vars

\* The populations of a file that stays as it is, the first one and those
\* of cb_refresh, each running to its end.
Populations ==
    \/ Populate
    \/ CbRefresh

FairSpec == InitSameFile /\ [][Populations]_vars /\ WF_vars(Populate)

\* ---------------------------------------------------------- properties
\* The items of the tree, by position; emitted[i] is the frame of tree[i].
Items == 1 .. Len(tree)

Front(path) == SubSeq(path, 1, Len(path) - 1)

\* The place in the value graph of the value of item i.
Path(i) == emitted[i].value.path

\* Item c was made of a child (a field or an element) of the value of item p.
IsChild(c, p) == Path(c) # <<>> /\ Front(Path(c)) = Path(p)

\* The items made of a field or an element, not of the root value.
NonRoot == {c \in Items : Path(c) # <<>>}

\* The item made of the value that the value of item c belongs to.
ParentOf(c) == CHOOSE p \in Items : Path(p) = Front(Path(c))

\* Item d was made of the value of item a or of a value below it.
IsBelow(d, a) ==
    Len(Path(a)) <= Len(Path(d)) /\ SubSeq(Path(d), 1, Len(Path(a))) = Path(a)

\* The item that was made of the value a queued frame's value belongs to.
OwnerOf(frame) == {p \in Items : Path(p) = Front(frame.value.path)}

\* C1: parent before child.  Every item but the root was added after the
\* item made of the value it belongs to, and its parent argument is the
\* handle add_tree_item returned for that item; the root is the first item
\* and is passed the sentinel; and the handle of every frame still queued
\* was returned by a call already made.
ParentBeforeChild ==
    /\ \A i \in Items :
          IF Path(i) = <<>>
          THEN i = 1 /\ tree[i].parent = NoParent
          ELSE \E j \in 1 .. i - 1 :
                  IsChild(i, j) /\ tree[i].parent = tree[j].handle
    /\ \A k \in 1 .. Len(queue) :
          queue[k].value.path # <<>> =>
              \E j \in OwnerOf(queue[k]) : queue[k].parent = tree[j].handle

\* C1: a tree in which an item has a grandparent.
ParentBeforeChildWitness ==
    \E i, j, k \in Items : IsChild(i, j) /\ IsChild(j, k) /\ k < j /\ j < i

\* C2: relativity detection.  Below a non-array item whose start offset is
\* greater than 0, a child for which the parser reports start offset 0, and
\* every item below that child, has start offset None and end offset None.
RelativityDetection ==
    \A c \in NonRoot :
        LET p == ParentOf(c)
        IN (/\ emitted[c].value.start_offset = 0
            /\ ~emitted[p].is_array
            /\ emitted[p].start_offset > 0)
           => \A d \in Items :
                 IsBelow(d, c) =>
                     tree[d].start_offset = None /\ tree[d].end_offset = None

\* C2: the parser reported offsets for an element of a flagged array, and
\* the element is in the tree without them.
RelativityDetectionWitness ==
    \E p, c, d \in Items :
        /\ IsChild(c, p) /\ IsChild(d, c)
        /\ ~emitted[p].is_array
        /\ emitted[p].start_offset > 0
        /\ emitted[c].value.start_offset = 0
        /\ emitted[c].is_array
        /\ emitted[d].value.start_offset = 1
        /\ tree[d].start_offset = None /\ tree[d].end_offset = None

\* C5: array pass-through.  Every frame made of an element of an array
\* carries the invalidation flag of the array's frame, in the tree and in
\* the queue.
ArrayPassThrough ==
    /\ \A c \in NonRoot :
          LET p == ParentOf(c)
          IN emitted[p].is_array =>
                emitted[c].invalidate_offsets = emitted[p].invalidate_offsets
    /\ \A k \in 1 .. Len(queue) :
          \A p \in OwnerOf(queue[k]) :
              emitted[p].is_array =>
                  queue[k].invalidate_offsets = emitted[p].invalidate_offsets

\* C5: an array that starts behind offset 0 has an element the parser
\* reports at offset 0, and the element keeps its offsets.
ArrayPassThroughWitness ==
    \E p, c \in Items :
        /\ IsChild(c, p)
        /\ emitted[p].is_array
        /\ emitted[p].start_offset > 0
        /\ emitted[c].value.start_offset = 0
        /\ ~emitted[c].invalidate_offsets
        /\ tree[c].start_offset = 0 /\ tree[c].end_offset = 1

\* A refresh has ended with a decode error.
RefreshFailed == pc = "idle" /\ errors > 0 /\ status = "Refreshing..."

\* The items the running or last build added, as add_tree_item was given
\* them.
BuildItems == [i \in 1 .. Len(emitted) |-> TreeItem(Handle(i), emitted[i])]

Position(i) == Path(i)[Len(Path(i))]

\* C6 as claimed: the flag of a named child is the flag of the node, or the
\* node's start offset is not 0 and the parser reports the child at 0.
\* Stated for the nodes whose start offset is a number, the case the claim's
\* example is about.
LocalRelativityCheck ==
    \A p, c \in Items :
        (/\ IsChild(c, p)
         /\ ~emitted[p].is_array
         /\ emitted[p].start_offset # None) =>
            emitted[c].invalidate_offsets =
                (\/ emitted[p].invalidate_offsets
                 \/ (/\ emitted[p].start_offset # 0
                     /\ emitted[c].value.start_offset = 0))

\* C6 as amended: the flag of a named child is the flag of the node, or the
\* node's start offset is not 0 and the parser reports the child, or a
\* child before it in the same enumeration, at 0.  A flagged child has no
\* offsets, another has the offsets the parser reports.
CarriedRelativityCheck ==
    \A c \in NonRoot :
        LET p == ParentOf(c)
        IN ~emitted[p].is_array =>
            /\ emitted[c].invalidate_offsets =
                  (\/ emitted[p].invalidate_offsets
                   \/ (/\ emitted[p].start_offset # 0
                       /\ \E s \in NonRoot :
                             /\ emitted[s].value.start_offset = 0
                             /\ IsChild(s, p)
                             /\ Position(s) <= Position(c)))
            /\ tree[c].start_offset =
                  IF emitted[c].invalidate_offsets THEN None
                  ELSE emitted[c].value.start_offset
            /\ tree[c].end_offset =
                  IF emitted[c].invalidate_offsets THEN None
                  ELSE emitted[c].value.end_offset

\* C6: a node that is not flagged and starts behind 0 has a child reported
\* at 0 and after it a child reported at 1, which is flagged as well.
CarriedRelativityCheckWitness ==
    \E p, s, c \in Items :
        /\ IsChild(s, p) /\ IsChild(c, p)
        /\ ~emitted[p].is_array /\ ~emitted[p].invalidate_offsets
        /\ emitted[p].start_offset > 0
        /\ Position(s) < Position(c)
        /\ emitted[s].value.start_offset = 0
        /\ emitted[c].value.start_offset = 1
        /\ emitted[c].invalidate_offsets
        /\ tree[c].start_offset = None

\* C7 as claimed: no command is sent to the raw-byte view for an item
\* without a byte range.
SelectWithoutRangeIsNoOp ==
    \A k \in 1 .. Len(hex_cmds) :
        /\ hex_cmds[k].cmd = "mark_range" =>
              ~(hex_cmds[k].start_offset = None
                /\ hex_cmds[k].end_offset = None)
        /\ hex_cmds[k].cmd = "make_visible" => hex_cmds[k].offset # None

\* Item i has a start and an end offset.
HasRange(i) == tree[i].start_offset # None /\ tree[i].end_offset # None

\* The range (start, end) lies in the range (pstart, pend).
Contained(start, end, pstart, pend) == pstart <= start /\ end <= pend

\* C8 as claimed: the byte range of an item lies in the byte range of its
\* parent, when both have one.
RangeContainment ==
    \A c \in NonRoot :
        LET p == ParentOf(c)
        IN HasRange(c) /\ HasRange(p) =>
            Contained(tree[c].start_offset, tree[c].end_offset,
                      tree[p].start_offset, tree[p].end_offset)

\* C8 as amended: when an item and its parent both have a byte range, both
\* ranges are the ones the parser reports, so the item's range lies in its
\* parent's exactly when the parser reports it so; the build itself only
\* excludes a named child at offset 0 below a parent that starts behind 0.
RangeContainmentAsReported ==
    \A c \in NonRoot :
        LET p == ParentOf(c)
        IN HasRange(c) /\ HasRange(p) =>
            /\ tree[c].start_offset = emitted[c].value.start_offset
            /\ tree[c].end_offset = emitted[c].value.end_offset
            /\ tree[p].start_offset = emitted[p].value.start_offset
            /\ tree[p].end_offset = emitted[p].value.end_offset
            /\ (~emitted[p].is_array /\ tree[p].start_offset > 0
                    => tree[c].start_offset > 0)

\* C8: a parent that starts behind 0 has a named child with a byte range
\* that lies in its own.
RangeContainmentWitness ==
    \E p, c \in Items :
        /\ IsChild(c, p) /\ HasRange(c) /\ HasRange(p)
        /\ ~emitted[p].is_array
        /\ tree[p].start_offset > 0
        /\ Contained(tree[c].start_offset, tree[c].end_offset,
                     tree[p].start_offset, tree[p].end_offset)

DetectionNeedsNonzeroStart ==
    \A p, c \in Items :
        (/\ IsChild(c, p)
         /\ ~emitted[p].is_array
         /\ emitted[c].invalidate_offsets
         /\ ~emitted[p].invalidate_offsets)
        => emitted[p].start_offset > 0

\* ---------------------------------------------------------------- C11
\* The values the parser handed to the build are each a frame of the queue
\* or an item of the tree, one place for each value.
OncePerValue ==
    /\ enumerated = Len(tree) + Len(queue)
    /\ Cardinality({Path(i) : i \in Items}) = Len(tree)
    /\ \A k \in 1 .. Len(queue) :
          \A i \in Items : queue[k].value.path # Path(i)

\* C11: a build on which the parser raises no error leaves the loop, and it
\* leaves it with an empty queue, with add_tree_item called once for the
\* root value and once for every child and element the parser enumerated,
\* none skipped and none twice, and with the status "Loaded".
BuildTerminates ==
    /\ [][pc' = "loop" => OncePerValue']_vars
    /\ [][pc' = "idle" /\ errors' = 0 =>
            /\ queue' = <<>>
            /\ OncePerValue'
            /\ Len(tree') >= 1
            /\ tree'[1].name = "root"]_vars
    /\ [][pc = "loop" /\ pc' = "idle" /\ errors' = 0 =>
            queue = <<>> /\ status' = "Loaded" /\ tree' = tree]_vars
    /\ (pc = "loop" ~> pc # "loop")

BuildTerminatesWitness ==
    /\ pc = "idle"
    /\ status = "Loaded"
    /\ enumerated = 3
    /\ Len(tree) = 3
    /\ \E i \in Items : emitted[i].is_array /\ \E c \in Items : IsChild(c, i)

\* ---------------------------------------------------------------- C12
\* The place in a tree of the parent of its i-th item, 0 for the root: what
\* a handle stands for.
ParentPosition(items, i) ==
    IF items[i].parent = NoParent
    THEN 0
    ELSE CHOOSE k \in 1 .. Len(items) : items[k].handle = items[i].parent

GotoStep ==
    \/ status # "Jumping to offset" /\ status' = "Jumping to offset"
    \/ /\ hex_cmds' # hex_cmds
       /\ \E k \in 1 .. Len(hex_cmds') :
             hex_cmds'[k].cmd = "make_visible" /\ hex_cmds'[k].highlight

\* C13: cb_goto gives the view one command, make_visible(offset,
\* highlight = True), and leaves the structure tree, the current file path
\* and the format as they are, from every state and for every offset.
GotoLeavesTreeAlone ==
    [][GotoStep =>
          /\ \E offset \in Offsets : hex_cmds' = <<MakeVisible(offset, TRUE)>>
          /\ tree' = tree
          /\ current_file_path' = current_file_path
          /\ format' = format]_vars

GotoLeavesTreeAloneWitness ==
    /\ status = "Jumping to offset"
    /\ hex_cmds = <<MakeVisible(1, TRUE)>>
    /\ Len(tree) = 3
    /\ current_file_path = "file"

\* ---------------------------------------------------------------- C14
\* C14: the nodes are emitted breadth first.  A node is never emitted after
\* a deeper one; the children of one parent are emitted in the order the
\* parser enumerated them; and the children of a parent emitted earlier
\* come before the children of a parent emitted later.
BreadthFirstOrder ==
    \A i \in 1 .. Len(emitted) - 1 :
        LET j == i + 1
        IN /\ Len(Path(i)) <= Len(Path(j))
           /\ i = 1 => Position(j) = 1
           /\ i > 1 =>
                 LET p == ParentOf(i)
                     q == ParentOf(j)
                 IN /\ p <= q
                    /\ p = q => Position(j) = Position(i) + 1
                    /\ p < q => Position(j) = 1

BreadthFirstOrderWitness ==
    /\ Len(emitted) = 4
    /\ Path(2) = <<1>>
    /\ Path(3) = <<2>>
    /\ Path(4) = <<1, 1>>

\* ---------------------------------------------------------------- C15
\* C15: when a refresh has emitted its last node without an error, the tree
\* of the view is made of the nodes of that build and of no other: cb_refresh
\* empties the view and populates it again with the stored path and format.
\* The events cb_structure_selected and cb_goto leave the tree as it is.
RefreshReplacesTree ==
    /\ [][(pc' = "loop" /\ queue' = <<>>) \/ (pc' = "idle" /\ errors' = 0) =>
            tree' = BuildItems']_vars
    /\ [][pc = "idle" /\ pc' = "populate_view" =>
            /\ tree' = <<>>
            /\ current_file_path' = current_file_path
            /\ format' = format]_vars
    /\ [][current_file_path = "file" /\ format = "kaitai" =>
            current_file_path' = "file" /\ format' = "kaitai"]_vars
    /\ [][pc = "idle" /\ pc' = "idle" => tree' = tree]_vars

\* A refresh of a completed tree has emitted the last node of its build.
RefreshReplacesTreeWitness ==
    /\ pc = "loop"
    /\ queue = <<>>
    /\ status = "Refreshing..."
    /\ discarded
    /\ ~recovering
    /\ Len(tree) = 2
    /\ tree = BuildItems

\* ---------------------------------------------------------------- C16
\* C16: a build that meets a decode error calls display_error once and does
\* not set the status "Loaded"; any other exception leaves the build for the
\* caller with display_error not called; and after a failed build the
\* application takes a refresh, which, when the parser raises no error,
\* emits a node for every value and sets the status "Loaded".
ErrorOutcome ==
    /\ [][errors' > errors => errors' = 1 /\ status' = status]_vars
    /\ [][errors' > 0 =>
            /\ errors' = 1
            /\ pc' = "idle"
            /\ status' # "Loaded"]_vars
    /\ [][pc' = "raised" => errors' = 0 /\ status' # "Loaded"]_vars
    /\ [][errors > 0 /\ pc' # pc =>
            /\ pc' = "populate_view"
            /\ recovering'
            /\ errors' = 0
            /\ tree' = <<>>]_vars
    /\ [][recovering /\ pc = "loop" /\ pc' = "idle" /\ errors' = 0 =>
            /\ queue = <<>>
            /\ OncePerValue'
            /\ tree' = BuildItems'
            /\ status' = "Loaded"]_vars

\* A refresh that was started after a failed build has emitted a node for
\* every value of the file.
ErrorOutcomeWitness ==
    /\ recovering
    /\ pc = "loop"
    /\ queue = <<>>
    /\ errors = 0
    /\ enumerated = 3
    /\ Len(tree) = 3

\* ---------------------------------------------------------------- C17
\* C17: a node that is not the root is emitted with the start and the end
\* offset the parser reported of its value, both of them, or with None for
\* both; with None for both when the flag of its frame is set.  No node has
\* one offset dropped and the other kept, or an offset the parser did not
\* report.
OffsetsBothOrNone ==
    \A c \in NonRoot :
        LET reported == <<emitted[c].value.start_offset,
                          emitted[c].value.end_offset>>
            shown == <<tree[c].start_offset, tree[c].end_offset>>
        IN /\ shown \in {reported, <<None, None>>}
           /\ emitted[c].invalidate_offsets => shown = <<None, None>>
           /\ ~emitted[c].invalidate_offsets => shown = reported

OffsetsBothOrNoneWitness ==
    \E c, d \in NonRoot :
        /\ emitted[c].invalidate_offsets
        /\ emitted[c].value.start_offset = 1
        /\ emitted[c].value.end_offset = 2
        /\ tree[c].start_offset = None
        /\ tree[c].end_offset = None
        /\ ~emitted[d].invalidate_offsets
        /\ tree[d].start_offset = 1
        /\ tree[d].end_offset = 2

\* ---------------------------------------------------------------- C18
\* C18: the first node of a build is the root: parent '', name 'root',
\* start offset 0, end offset None, no pseudo field.  The start offset of
\* the root being 0, no child of the root is invalidated: a node of depth 1
\* has the range the parser reported, a range that starts at 0 as well.
RootSeeding ==
    /\ tree # <<>> =>
          /\ Path(1) = <<>>
          /\ tree[1] = [handle |-> Handle(1), parent |-> NoParent,
                        name |-> "root", start_offset |-> 0,
                        end_offset |-> None, is_metavar |-> FALSE]
    /\ \A c \in NonRoot :
          Len(Path(c)) = 1 =>
              /\ ~emitted[c].invalidate_offsets
              /\ tree[c].start_offset = emitted[c].value.start_offset
              /\ tree[c].end_offset = emitted[c].value.end_offset
    /\ \A k \in 1 .. Len(queue) :
          Len(queue[k].value.path) = 1 => ~queue[k].invalidate_offsets

RootSeedingWitness ==
    \E c, d \in NonRoot :
        /\ Path(c) = <<1>>
        /\ Path(d) = <<2>>
        /\ tree[c].start_offset = 1
        /\ tree[c].end_offset = 2
        /\ emitted[d].value.start_offset = 0
        /\ tree[d].start_offset = 0
        /\ tree[d].end_offset = 1

\* ---------------------------------------------------------------- C19
\* C19: the children emitted for an array node of n elements are named
\* '[0]' to '[n-1]' in the order of the elements, none is a pseudo field,
\* and each is queued as a frame that is not an array: the children of an
\* element are those of get_children, by their names, checked against the
\* start offset the element was emitted with.
ArrayElementNaming ==
    /\ \A c \in NonRoot :
          LET p == ParentOf(c)
          IN IF emitted[p].is_array
             THEN /\ tree[c].name = ElementName(Position(c) - 1)
                  /\ tree[c].parent = tree[p].handle
                  /\ ~tree[c].is_metavar
                  /\ ~emitted[c].is_array
             ELSE /\ tree[c].name = FieldNames[Position(c)]
                  /\ Position(c) = 1 =>
                        (emitted[c].invalidate_offsets <=>
                            \/ emitted[p].invalidate_offsets
                            \/ /\ tree[p].start_offset # 0
                               /\ emitted[c].value.start_offset = 0)
    /\ \A k \in 1 .. Len(queue) :
          \A p \in OwnerOf(queue[k]) :
              emitted[p].is_array =>
                  /\ queue[k].name =
                        ElementName(queue[k].value.path[Len(queue[k].value.path)] - 1)
                  /\ ~queue[k].is_metavar
                  /\ ~queue[k].is_array

ArrayElementNamingWitness ==
    \E p, c, d \in Items :
        /\ emitted[p].is_array
        /\ IsChild(c, p)
        /\ IsChild(d, p)
        /\ tree[c].name = "[0]"
        /\ tree[d].name = "[1]"
        /\ d = c + 1
====
